---- MODULE Spec2Model ----
(***************************************************************************)
(* Model of warehouse_problem.py: the synthetic data generator             *)
(* (generate_problem_data) and the QUBO builder (build_qubo).              *)
(* Item indices are 0-based as in the source; lists indexed by item are    *)
(* functions over 0..n-1, the taboo list is a sequence of pairs <<i, j>>,  *)
(* the coefficient map Q is a function whose domain is its key set.        *)
(***************************************************************************)
EXTENDS Integers, Sequences, FiniteSets, TLC

(* ---------------- bounds of the model ---------------- *)
MaxN == 3            \* largest num_items of a drawn build_qubo instance
MaxTaboo == 2        \* longest taboo_pairs list handed to build_qubo
MaxAccumN == 2       \* largest num_items of a step-by-step accumulation
MaxAccumTaboo == 1   \* longest taboo_pairs list of a step-by-step accumulation
NumCategories == 2   \* number of categories of a drawn instance
MaxGenItems == 3     \* largest num_items handed to generate_problem_data
MaxGenTaboo == 2     \* largest num_taboo_pairs handed to generate_problem_data
RandMod == 16        \* number of states of the modelled random generator

VARIABLES
    config,        \* the configuration dictionary of the current call
    values,        \* item values, a list indexed 0..n-1
    weights,       \* item weights
    categories,    \* item categories
    taboo_pairs,   \* list of forbidden pairs
    Q,             \* the coefficient map under construction / returned
    pc,            \* where the program is
    pending,       \* contributions of build_qubo not yet accumulated
    rng,           \* state of the shared global generator of module random
    gen,           \* the generator algorithm (multiplier, increment)
    ref            \* outcome of an earlier call of generate_problem_data

vars == <<config, values, weights, categories, taboo_pairs, Q, pc,
          pending, rng, gen, ref>>

NoCall == [pc |-> "none"]

Items(n) == 0 .. (n - 1)

(* ---------------- helpers on sequences ---------------- *)
RECURSIVE Flatten(_)
Flatten(ss) == IF Len(ss) = 0 THEN <<>> ELSE Head(ss) \o Flatten(Tail(ss))

RECURSIVE SumOver(_, _)
\* sum of f[x] over the finite set S
SumOver(f, S) ==
    IF S = {} THEN 0
    ELSE LET x == CHOOSE y \in S : TRUE IN f[x] + SumOver(f, S \ {x})

(* ---------------- the coefficient map ---------------- *)
EmptyQ == [k \in {} |-> 0]

\* slip: Q[key] = d, the coefficient is overwritten instead of accumulated
AddOverwrite(Qm, key, d) ==
    [k \in (DOMAIN Qm) \cup {key} |-> IF k = key THEN d ELSE Qm[k]]

\* Q[key] += d on a defaultdict(float): a missing key starts at 0
Add(Qm, key, d) ==
    [k \in (DOMAIN Qm) \cup {key} |->
        IF k = key THEN (IF key \in DOMAIN Qm THEN Qm[key] ELSE 0) + d
        ELSE Qm[k]]

RECURSIVE Accumulate(_, _)
\* apply a sequence of contributions <<key, d>> in order
Accumulate(Qm, cs) ==
    IF Len(cs) = 0 THEN Qm
    ELSE Accumulate(Add(Qm, Head(cs)[1], Head(cs)[2]), Tail(cs))

(* ---------------- build_qubo, term by term ---------------- *)
\* slip: Q[(i, i)] += values[i], the value is added instead of subtracted
ObjectiveTermAdded(v, cfg) ==
    [k \in 1 .. cfg.num_items |-> << <<k - 1, k - 1>>, v[k - 1] >>]

\* for i in range(n): Q[(i, i)] -= values[i]
ObjectiveTerm(v, cfg) ==
    [k \in 1 .. cfg.num_items |-> << <<k - 1, k - 1>>, 0 - v[k - 1] >>]

\* slip: the linear part loses the factor 2 of - 2 * max_weight * weights[i]
WeightRowSingleLinear(w, cfg, i) ==
    << << <<i, i>>, cfg.penalty_mass * (w[i] * w[i] - cfg.max_weight * w[i]) >> >>
    \o [k \in 1 .. (cfg.num_items - 1 - i) |->
          << <<i, i + k>>, cfg.penalty_mass * 2 * w[i] * w[i + k] >>]

\* the contributions of one iteration i of the weight loop
WeightRow(w, cfg, i) ==
    << << <<i, i>>, cfg.penalty_mass * (w[i] * w[i] - 2 * cfg.max_weight * w[i]) >> >>
    \o [k \in 1 .. (cfg.num_items - 1 - i) |->
          << <<i, i + k>>, cfg.penalty_mass * 2 * w[i] * w[i + k] >>]

WeightTerm(w, cfg) ==
    Flatten([k \in 1 .. cfg.num_items |-> WeightRow(w, cfg, k - 1)])

RECURSIVE AppendNew(_, _, _)
\* keys of items_by_category in insertion order, scanning items i, i+1, ...
AppendNew(c, i, n) ==
    IF i >= n THEN <<>>
    ELSE LET rest == AppendNew(c, i + 1, n)
         IN  <<c[i]>> \o SelectSeq(rest, LAMBDA x : x # c[i])

RECURSIVE ItemsOf(_, _, _, _)
\* items_by_category[cat]: the items of category cat, ascending
ItemsOf(c, cat, i, n) ==
    IF i >= n THEN <<>>
    ELSE (IF c[i] = cat THEN <<i>> ELSE <<>>) \o ItemsOf(c, cat, i + 1, n)

\* slip: zip(items, items[1:]), only neighbouring items of a group are paired
AdjacentPairs(items) ==
    [a \in 1 .. (Len(items) - 1) |-> <<items[a], items[a + 1]>>]

\* combinations(items, 2) in lexicographic order
Combinations2(items) ==
    Flatten([a \in 1 .. Len(items) |->
               [b \in 1 .. (Len(items) - a) |-> <<items[a], items[a + b]>>]])

\* for cat, items in items_by_category.items(): if len(items) > 1: ...
CategoryTerm(c, cfg) ==
    LET n == Cardinality(DOMAIN c)
        cats == AppendNew(c, 0, n)
        group(cat) == ItemsOf(c, cat, 0, n)
        pairs(cat) == IF Len(group(cat)) > 1 THEN Combinations2(group(cat)) ELSE <<>>
        row(cat) == [k \in 1 .. Len(pairs(cat)) |-> << pairs(cat)[k], cfg.penalty_category >>]
    IN  Flatten([k \in 1 .. Len(cats) |-> row(cats[k])])

\* slip: Q[(j, i)] += p_taboo, the key is written with its indices swapped
TabooTermSwapped(t, cfg) ==
    [k \in 1 .. Len(t) |-> << <<t[k][2], t[k][1]>>, cfg.penalty_taboo >>]

\* for i, j in taboo_pairs: Q[(i, j)] += p_taboo
TabooTerm(t, cfg) ==
    [k \in 1 .. Len(t) |-> << t[k], cfg.penalty_taboo >>]

Contributions(v, w, c, t, cfg) ==
    ObjectiveTerm(v, cfg) \o WeightTerm(w, cfg) \o CategoryTerm(c, cfg) \o TabooTerm(t, cfg)

build_qubo(v, w, c, t, cfg) ==
    Accumulate(EmptyQ, Contributions(v, w, c, t, cfg))

(* ---------------- inputs of build_qubo ---------------- *)
\* the weight-penalty example: max_weight 25, penalty_mass 1, with the
\* category and taboo penalties of the main configuration
InstanceConfig(n) ==
    [num_items |-> n, num_categories |-> NumCategories, num_taboo_pairs |-> 0,
     max_weight |-> 25, penalty_mass |-> 1,
     penalty_category |-> 50, penalty_taboo |-> 100]

\* the end-to-end scenario: 4 items, capacity and penalty_mass of the main
\* configuration (1000 >= any total weight here), penalty_category 1000
ScenarioConfig(pm) ==
    [num_items |-> 4, num_categories |-> 1, num_taboo_pairs |-> 0,
     max_weight |-> 1000, penalty_mass |-> pm,
     penalty_category |-> 1000, penalty_taboo |-> 100]

\* <<value, weight>> of item i: values lie in 100..1000, weights in 10..100;
\* rising values and weights, falling values with equal weights, all equal
ItemLists(n) ==
    { [i \in Items(n) |-> <<100 * (i + 1), 10 * (i + 1)>>],
      [i \in Items(n) |-> <<1000 - 100 * i, 20>>],
      [i \in Items(n) |-> <<100, 10>>] }

PairLeq(p, q) == p[1] < q[1] \/ (p[1] = q[1] /\ p[2] <= q[2])

\* any list of at most MaxTaboo pairs of item indices: each pair sorted or
\* not, of distinct indices or not, repeated or not; one list per multiset
\* of pairs (the list is listed in lexicographic order)
TabooLists(n) ==
    {t \in UNION {[1 .. l -> Items(n) \X Items(n)] : l \in 0 .. MaxTaboo} :
        \A k \in 1 .. (Len(t) - 1) : PairLeq(t[k], t[k + 1])}

\* an arbitrary instance of at most MaxN items
InitInstance ==
    \E n \in 1 .. MaxN :
       /\ config = InstanceConfig(n)
       /\ \E prof \in ItemLists(n) :
            /\ values = [i \in Items(n) |-> prof[i][1]]
            /\ weights = [i \in Items(n) |-> prof[i][2]]
       /\ categories \in [Items(n) -> Items(NumCategories)]
       /\ taboo_pairs \in TabooLists(n)

\* an instance of the end-to-end scenario
InitScenario ==
    /\ config \in {ScenarioConfig(pm) : pm \in {1, 50}}
    /\ \E prof \in [Items(4) -> {<<100, 10>>, <<1000, 10>>, <<100, 20>>}] :
         /\ values = [i \in Items(4) |-> prof[i][1]]
         /\ weights = [i \in Items(4) |-> prof[i][2]]
    /\ categories = [i \in Items(4) |-> 0]
    /\ taboo_pairs = <<>>

Init ==
    /\ InitInstance \/ InitScenario
    /\ Q = EmptyQ
    /\ pc = "start"
    /\ pending = {}
    /\ rng = 0
    /\ gen = [mul |-> 1, inc |-> 0]
    /\ ref = NoCall

\* qubo_model = build_qubo(item_values, item_weights, item_categories, ...)
BuildQubo ==
    /\ pc = "start"
    /\ Q' = build_qubo(values, weights, categories, taboo_pairs, config)
    /\ pc' = "done"
    /\ UNCHANGED <<config, values, weights, categories, taboo_pairs,
                   pending, rng, gen, ref>>

Next == BuildQubo

Spec == Init /\ [][Next]_vars

(* ---------------- vocabulary of the properties ---------------- *)
N == config.num_items

Diagonal(i) == <<i, i>>

\* every taboo pair is (i, j) with 0 <= i < j < n
TabooWellFormed ==
    \A k \in 1 .. Len(taboo_pairs) :
        /\ taboo_pairs[k][1] \in Items(N)
        /\ taboo_pairs[k][2] \in Items(N)
        /\ taboo_pairs[k][1] < taboo_pairs[k][2]

\* every taboo pair is a pair of distinct valid indices, in either order
TabooDistinctValid ==
    \A k \in 1 .. Len(taboo_pairs) :
        /\ taboo_pairs[k][1] \in Items(N)
        /\ taboo_pairs[k][2] \in Items(N)
        /\ taboo_pairs[k][1] # taboo_pairs[k][2]

TabooDeduplicated ==
    \A a, b \in 1 .. Len(taboo_pairs) : a # b => taboo_pairs[a] # taboo_pairs[b]

IsTaboo(i, j) == \E k \in 1 .. Len(taboo_pairs) : taboo_pairs[k] = <<i, j>>

Pairs(S) == {p \in S \X S : p[1] < p[2]}

\* energy of the selection S under the map Q: every key whose two indices
\* are both selected contributes its coefficient
Energy(S) ==
    SumOver(Q, {k \in DOMAIN Q : k[1] \in S /\ k[2] \in S})

TotalValue(S) == SumOver(values, S)
TotalWeight(S) == SumOver(weights, S)
SameCategoryPairs(S) == {p \in Pairs(S) : categories[p[1]] = categories[p[2]]}
TabooPairsIn(S) == {p \in Pairs(S) : IsTaboo(p[1], p[2])}

Feasible(S) ==
    /\ TotalWeight(S) <= config.max_weight
    /\ SameCategoryPairs(S) = {}
    /\ TabooPairsIn(S) = {}

MinEnergy(S) == \A T \in SUBSET Items(N) : Energy(S) <= Energy(T)

(* ---------------- C1 ---------------- *)
\* C1: with well-formed taboo pairs, the returned map holds at the diagonal
\* key of every item i exactly
\* -values[i] + penalty_mass * (weights[i]^2 - 2 * max_weight * weights[i]),
\* whatever the categories and taboo pairs; for n = 1 every key is diagonal.
C1_Diagonal ==
    (pc = "done" /\ TabooWellFormed) =>
        /\ \A i \in Items(N) :
              /\ Diagonal(i) \in DOMAIN Q
              /\ Q[Diagonal(i)] =
                    (0 - values[i])
                    + config.penalty_mass
                        * (weights[i] * weights[i]
                           - 2 * config.max_weight * weights[i])
        /\ (N = 1 => \A k \in DOMAIN Q : k[1] = k[2])

\* an instance where category and taboo penalties both act on the map
C1_Witness ==
    /\ pc = "done"
    /\ TabooWellFormed
    /\ N >= 2
    /\ Len(taboo_pairs) >= 1
    /\ \E p \in Pairs(Items(N)) : categories[p[1]] = categories[p[2]]

(* ---------------- C2 ---------------- *)
\* C2: with well-formed, deduplicated taboo pairs, the returned map holds at
\* every key (i, j), i < j, exactly the weight cross term
\* penalty_mass * 2 * weights[i] * weights[j], plus penalty_category when i
\* and j share a category, plus penalty_taboo when (i, j) is a taboo pair.
C2_OffDiagonal ==
    (pc = "done" /\ TabooWellFormed /\ TabooDeduplicated) =>
        \A p \in Pairs(Items(N)) :
            /\ p \in DOMAIN Q
            /\ Q[p] = config.penalty_mass * 2 * weights[p[1]] * weights[p[2]]
                      + (IF categories[p[1]] = categories[p[2]]
                         THEN config.penalty_category ELSE 0)
                      + (IF IsTaboo(p[1], p[2]) THEN config.penalty_taboo ELSE 0)

\* three items of one category, one of the pairs also a taboo pair
C2_Witness ==
    /\ pc = "done"
    /\ TabooWellFormed /\ TabooDeduplicated
    /\ N = 3
    /\ \A i \in Items(N) : categories[i] = categories[0]
    /\ IsTaboo(0, 2)
    /\ Q[<<0, 2>>] = config.penalty_mass * 2 * weights[0] * weights[2]
                     + config.penalty_category + config.penalty_taboo

(* ---------------- C3 ---------------- *)
\* C3: with well-formed, deduplicated taboo pairs, the energy of every
\* selection under the returned map equals
\* -sum(values) + penalty_mass * ((sum(weights) - max_weight)^2 - max_weight^2)
\* + penalty_category * #(co-selected same-category pairs)
\* + penalty_taboo * #(co-selected taboo pairs).
C3_Energy ==
    (pc = "done" /\ TabooWellFormed /\ TabooDeduplicated) =>
        \A S \in SUBSET Items(N) :
            Energy(S) =
                (0 - TotalValue(S))
                + config.penalty_mass
                    * ((TotalWeight(S) - config.max_weight)
                         * (TotalWeight(S) - config.max_weight)
                       - config.max_weight * config.max_weight)
                + config.penalty_category * Cardinality(SameCategoryPairs(S))
                + config.penalty_taboo * Cardinality(TabooPairsIn(S))

\* a selection of three items holding a same-category pair and a taboo pair
C3_Witness ==
    /\ pc = "done"
    /\ TabooWellFormed /\ TabooDeduplicated
    /\ N = 3
    /\ SameCategoryPairs(Items(N)) # {}
    /\ TabooPairsIn(Items(N)) # {}
    /\ Energy(Items(N)) # Energy({0, 1})

(* ---------------- C4 ---------------- *)
\* C4: every selection of minimum energy under the returned map is feasible
\* (weight within max_weight, at most one item per category, no taboo pair
\* co-selected) and has the maximum total value among feasible selections.
C4_MinimizerIsConstrainedOptimum ==
    (pc = "done" /\ TabooWellFormed /\ TabooDeduplicated
       /\ config.max_weight > 0 /\ config.penalty_mass > 0
       /\ config.penalty_category > 0 /\ config.penalty_taboo > 0) =>
        \A S \in SUBSET Items(N) :
            MinEnergy(S) =>
                /\ Feasible(S)
                /\ \A T \in SUBSET Items(N) :
                      Feasible(T) => TotalValue(T) <= TotalValue(S)

(* ---------------- C5 ---------------- *)
\* C5: four items of one category, no taboo pairs, penalty_category 1000 and
\* a capacity no smaller than the total weight: every selection of minimum
\* energy selects at most one item, and that item has the highest value.
C5_ScenarioSelectsBestItem ==
    (pc = "done" /\ N = 4 /\ taboo_pairs = <<>>
       /\ (\A i \in Items(N) : categories[i] = categories[0])
       /\ config.penalty_category = 1000
       /\ config.max_weight >= TotalWeight(Items(N))) =>
        \A S \in SUBSET Items(N) :
            MinEnergy(S) =>
                /\ Cardinality(S) <= 1
                /\ \A i \in S : \A j \in Items(N) : values[j] <= values[i]

(* ---------------- C6 ---------------- *)
KeysWellFormed ==
    /\ \A k \in DOMAIN Q :
          /\ k[1] \in Items(N)
          /\ k[2] \in Items(N)
          /\ k[1] <= k[2]
    /\ \A i, j \in Items(N) :
          i # j => ~(<<i, j>> \in DOMAIN Q /\ <<j, i>> \in DOMAIN Q)

\* C6 as stated: for taboo pairs of distinct valid indices in either order,
\* every key is a diagonal key or a strictly increasing pair of valid
\* indices, and the map never holds both (i, j) and (j, i).
C6_KeysForDistinctPairs ==
    (pc = "done" /\ TabooDistinctValid) => KeysWellFormed

\* C6 amended: the same for taboo pairs (i, j) with 0 <= i < j < n.
C6_KeysForSortedPairs ==
    (pc = "done" /\ TabooWellFormed) => KeysWellFormed

\* a map built from a taboo list that adds its penalty to an increasing key
C6_Witness ==
    /\ pc = "done"
    /\ TabooWellFormed
    /\ Len(taboo_pairs) = 2
    /\ N = 3
    /\ Cardinality(DOMAIN Q) = 6

(* ---------------- build_qubo, one contribution at a time ---------------- *)
\* every statement Q[key] += d of build_qubo is one contribution; pending
\* holds those not yet applied as <<position in the code's order, key, d>>

\* the taboo pair (0, 1), listed up to MaxAccumTaboo times
RepeatedTabooLists(n) ==
    IF n < 2 THEN {<<>>}
    ELSE {[k \in 1 .. l |-> <<0, 1>>] : l \in 0 .. MaxAccumTaboo}

Statements(v, w, c, t, cfg) ==
    LET cs == Contributions(v, w, c, t, cfg)
    IN  {<<k, cs[k][1], cs[k][2]>> : k \in DOMAIN cs}

InitAccum ==
    /\ \E n \in 1 .. MaxAccumN :
         /\ config = InstanceConfig(n)
         /\ values = [i \in Items(n) |-> 100 * (i + 1)]
         /\ weights = [i \in Items(n) |-> 10 * (i + 1)]
         /\ categories \in [Items(n) -> Items(NumCategories)]
         /\ taboo_pairs \in RepeatedTabooLists(n)
    /\ Q = EmptyQ
    /\ pc = "accumulating"
    /\ pending = Statements(values, weights, categories, taboo_pairs, config)
    /\ rng = 0
    /\ gen = [mul |-> 1, inc |-> 0]
    /\ ref = NoCall

\* one statement Q[key] += d, taken in any order
ApplyContribution ==
    /\ pc = "accumulating"
    /\ \E st \in pending :
         /\ Q' = Add(Q, st[2], st[3])
         /\ pending' = pending \ {st}
    /\ UNCHANGED <<config, values, weights, categories, taboo_pairs, pc,
                   rng, gen, ref>>

\* return Q
ReturnQ ==
    /\ pc = "accumulating"
    /\ pending = {}
    /\ pc' = "done"
    /\ UNCHANGED <<config, values, weights, categories, taboo_pairs, Q,
                   pending, rng, gen, ref>>

NextAccum == ApplyContribution \/ ReturnQ

SpecAccum == InitAccum /\ [][NextAccum]_vars

Coef(Qm, k) == IF k \in DOMAIN Qm THEN Qm[k] ELSE 0

RECURSIVE Owed(_, _)
\* what the statements of the set sts still add to key k
Owed(sts, k) ==
    IF sts = {} THEN 0
    ELSE LET st == CHOOSE x \in sts : TRUE
         IN  (IF st[2] = k THEN st[3] ELSE 0) + Owed(sts \ {st}, k)

(* ---------------- C10 ---------------- *)
\* C10: applying the contributions of the four terms in any interleaving
\* ends in the map the code's order objective -> weight -> category -> taboo
\* builds, and every intermediate map differs from that final map exactly by
\* the contributions not yet applied.
C10_OrderIndependent ==
    LET final == build_qubo(values, weights, categories, taboo_pairs, config)
    IN  /\ pending = {} => Q = final
        /\ \A k \in DOMAIN final : Coef(final, k) - Coef(Q, k) = Owed(pending, k)
        /\ (DOMAIN Q) \cup {st[2] : st \in pending} = DOMAIN final

\* the taboo penalty was applied to a key before the weight cross term and
\* the category penalty that the code applies first
C10_Witness ==
    /\ pc = "accumulating"
    /\ N = 2
    /\ categories[0] = categories[1]
    /\ taboo_pairs = << <<0, 1>> >>
    /\ Q = [k \in {<<0, 1>>} |-> config.penalty_taboo]
    /\ Cardinality(pending) = 6

(* ---------------- module random, as generate_problem_data uses it -------- *)
\* The generator is a deterministic function of its state: one step per
\* drawn number. gen picks one algorithm out of a family, so the numbers a
\* stream draws are arbitrary while every stream stays reproducible.
Step(s) == (gen.mul * s + gen.inc) % RandMod

RECURSIVE StateAfter(_, _)
\* the state k draws after state s
StateAfter(s, k) == IF k = 0 THEN s ELSE StateAfter(Step(s), k - 1)

\* slip: the reseeding is left out, the generator goes on from its state
random_seed_skipped(s, c) == s

\* random.seed(c) with the global generator in state s: the new state
random_seed(s, c) == c % RandMod

\* the i-th number (i = 1, 2, ...) that randint(a, b) returns after state s
randint(s, i, a, b) == a + (StateAfter(s, i) % (b - a + 1))

\* slip: the population check is off by one
sample_fails_off_by_one(n) == n <= 2

\* random.sample(range(n), 2) needs two elements to choose from
sample_fails(n) == n < 2

\* tuple(sorted(random.sample(range(n), 2))) as the i-th sample after state
\* s: a first index, then a second one among the n - 1 remaining
sorted_sample(s, i, n) ==
    LET first == StateAfter(s, 2 * i - 1) % n
        r == StateAfter(s, 2 * i) % (n - 1)
        second == IF r >= first THEN r + 1 ELSE r
    IN  IF first < second THEN <<first, second>> ELSE <<second, first>>

\* slip: the list is returned as drawn, without set(...)
list_kept(ps) == ps

RECURSIVE list_set(_)
\* list(set(pairs)): every pair once, in an order fixed by the insertions
list_set(ps) ==
    IF Len(ps) = 0 THEN <<>>
    ELSE LET h == Head(ps)
         IN  <<h>> \o SelectSeq(list_set(Tail(ps)), LAMBDA x : x # h)

\* generate_problem_data(cfg) entered with the global generator in state s0:
\* the outcome and the state the generator is left in
generate_problem_data(cfg, s0) ==
    LET n == cfg.num_items
        c == cfg.num_categories
        k == cfg.num_taboo_pairs
        s6 == random_seed(s0, 6)
        v == [i \in Items(n) |-> randint(s6, i + 1, 100, 1000)]
        s7 == random_seed(StateAfter(s6, n), 7)
        w == [i \in Items(n) |-> randint(s7, i + 1, 10, 100)]
        s8 == random_seed(StateAfter(s7, n), 8)
    IN  IF n >= 1 /\ c - 1 < 0
        THEN \* randint(0, num_categories - 1) raises on an empty range
             [pc |-> "failed", rng |-> s8]
        ELSE
          LET cat == [i \in Items(n) |-> randint(s8, i + 1, 0, c - 1)]
              s9 == random_seed(StateAfter(s8, n), 9)
          IN  IF k >= 1 /\ sample_fails(n)
              THEN [pc |-> "failed", rng |-> s9]
              ELSE [pc |-> "generated", values |-> v, weights |-> w,
                    categories |-> cat,
                    taboo_pairs |-> list_set([i \in 1 .. k |-> sorted_sample(s9, i, n)]),
                    rng |-> StateAfter(s9, 2 * k)]

GenConfigs ==
    [num_items : 0 .. MaxGenItems, num_categories : {0, NumCategories},
     num_taboo_pairs : 0 .. MaxGenTaboo,
     max_weight : {1000}, penalty_mass : {50},
     penalty_category : {50}, penalty_taboo : {100}]

Generators == [mul : {1, 5}, inc : {0, 1, 3}]

\* what a caller can observe of the last call
Outcome ==
    IF pc = "generated"
    THEN [pc |-> pc, config |-> config, values |-> values, weights |-> weights,
          categories |-> categories, taboo_pairs |-> taboo_pairs]
    ELSE IF pc = "failed" THEN [pc |-> pc, config |-> config]
    ELSE NoCall

\* the interpreter seeds the global generator from the environment
InitGen ==
    /\ config = [num_items |-> 0, num_categories |-> 0, num_taboo_pairs |-> 0,
                 max_weight |-> 1000, penalty_mass |-> 50,
                 penalty_category |-> 50, penalty_taboo |-> 100]
    /\ values = <<>> /\ weights = <<>> /\ categories = <<>> /\ taboo_pairs = <<>>
    /\ Q = EmptyQ
    /\ pc = "start"
    /\ pending = {}
    /\ rng \in 0 .. (RandMod - 1)
    /\ gen \in Generators
    /\ ref = NoCall

\* values, weights, categories, taboo_pairs = generate_problem_data(cfg);
\* ref keeps the outcome of some earlier call
GenerateProblemData ==
    \E cfg \in GenConfigs :
      LET r == generate_problem_data(cfg, rng)
      IN  /\ config' = cfg
          /\ pc' = r.pc
          /\ rng' = r.rng
          /\ IF r.pc = "generated"
             THEN /\ values' = r.values
                  /\ weights' = r.weights
                  /\ categories' = r.categories
                  /\ taboo_pairs' = r.taboo_pairs
             ELSE \* the exception propagates: nothing is returned
                  /\ values' = <<>> /\ weights' = <<>>
                  /\ categories' = <<>> /\ taboo_pairs' = <<>>
          /\ ref' \in {ref, Outcome}
          /\ UNCHANGED <<Q, pending, gen>>

NextGen == GenerateProblemData

SpecGen == InitGen /\ [][NextGen]_vars

Called == pc \in {"generated", "failed"}

(* ---------------- C7 ---------------- *)
\* C7: with num_items >= 2, the returned taboo_pairs holds only pairs (i, j)
\* with 0 <= i < j < n, no pair twice, at most num_taboo_pairs pairs, and at
\* least one pair when num_taboo_pairs >= 1.
C7_TabooPairsSound ==
    (pc = "generated" /\ config.num_items >= 2) =>
        /\ \A k \in 1 .. Len(taboo_pairs) :
              /\ taboo_pairs[k][1] \in Items(config.num_items)
              /\ taboo_pairs[k][2] \in Items(config.num_items)
              /\ taboo_pairs[k][1] < taboo_pairs[k][2]
        /\ \A a, b \in 1 .. Len(taboo_pairs) :
              a # b => taboo_pairs[a] # taboo_pairs[b]
        /\ Len(taboo_pairs) <= config.num_taboo_pairs
        /\ (config.num_taboo_pairs >= 1 => Len(taboo_pairs) >= 1)

\* two samples collided: fewer pairs returned than drawn
C7_Witness ==
    /\ pc = "generated"
    /\ config.num_items >= 3
    /\ config.num_taboo_pairs = 2
    /\ Len(taboo_pairs) = 1

(* ---------------- C8 ---------------- *)
\* C8: two calls with the same configuration have the same outcome (the same
\* values, weights, categories and taboo_pairs), whatever state the shared
\* generator was in before each of them.
C8_Deterministic ==
    (Called /\ ref # NoCall /\ ref.config = config) => Outcome = ref

\* the same configuration generated twice with a call of another
\* configuration, which leaves the generator elsewhere, in between
C8_Witness ==
    /\ pc = "generated"
    /\ ref # NoCall
    /\ ref.config = config
    /\ config.num_items >= 2
    /\ config.num_taboo_pairs >= 1
    /\ rng # random_seed(rng, 9)

(* ---------------- C9 ---------------- *)
ReturnsLists ==
    /\ pc = "generated"
    /\ DOMAIN values = Items(config.num_items)
    /\ DOMAIN weights = Items(config.num_items)
    /\ DOMAIN categories = Items(config.num_items)

\* C9 as stated: the call fails when num_taboo_pairs >= 1 and num_items < 2;
\* when num_items >= 2 or num_taboo_pairs = 0 it never fails and returns
\* values, weights and categories of length num_items.
C9_FailsOnlyWithoutTwoItems ==
    Called =>
        /\ (config.num_taboo_pairs >= 1 /\ config.num_items < 2) => pc = "failed"
        /\ (config.num_items >= 2 \/ config.num_taboo_pairs = 0) => ReturnsLists

\* C9 amended: the call fails when num_taboo_pairs >= 1 and num_items < 2;
\* when num_categories >= 1 and (num_items >= 2 or num_taboo_pairs = 0) it
\* never fails and returns values, weights and categories of length num_items.
C9_FailsOnlyWithoutTwoItemsOrCategories ==
    Called =>
        /\ (config.num_taboo_pairs >= 1 /\ config.num_items < 2) => pc = "failed"
        /\ (config.num_categories >= 1
              /\ (config.num_items >= 2 \/ config.num_taboo_pairs = 0))
             => ReturnsLists

\* a call asking for taboo pairs among fewer than two items, with categories
C9_Witness ==
    /\ pc = "failed"
    /\ config.num_items = 1
    /\ config.num_categories >= 1
    /\ config.num_taboo_pairs >= 1
====
